---------------------------- MODULE Spec2Model ----------------------------
(***************************************************************************)
(* aghpb-tui: the message-driven state machine of src/main.rs (App,        *)
(* handle_event, handle_key, update, view, the outer loop of main) and     *)
(* the selectable list of src/stateful_list.rs.                            *)
(*                                                                         *)
(* Spec      the application: outer loop, key handling, update, background *)
(*           fetch tasks.                                                  *)
(* SpecList  StatefulList on its own: with_items, default, next, previous. *)
(***************************************************************************)
EXTENDS Integers, Sequences, FiniteSets

VARIABLES
    running_state,              \* App.running_state
    previous_running_state,     \* App.previous_running_state
    categories,                 \* App.categories   : StatefulList
    image,                      \* App.image        : Option<Image>
    images,                     \* App.images       : Vec<Arc<BookData>>
    images_list,                \* App.images_list  : StatefulList
    shown_at_least_one_image,   \* App.shown_at_least_one_image
    search_input,               \* App.search_input : the text of the Input
    tasks,                      \* App.tasks        : JoinSet<Result<Message>>
    first_launch,               \* main: first_launch
    message,                    \* main: message : Option<Message>
    event,                      \* handle_event: what event::poll/read gave
    pc,                         \* position of main in its loop
    panic,                      \* the place that aborted the run, or "none"
    frame,                      \* what view drew last
    download_from,              \* history: running state DownloadImage saw
    last_request,               \* history: record of the latest LoadImage
    load_count,                 \* history: LoadCategories messages processed
    first_msg,                  \* history: type of the first message processed
    list,                       \* SpecList: the StatefulList under test
    origin,                     \* SpecList: selection when the current run began
    run_op,                     \* SpecList: operation the current run repeats
    run_n,                      \* SpecList: calls in the current run
    args,                       \* SpecLayout: the call made, with its arguments
    ret                         \* SpecLayout: what the call returned

vars == << running_state, previous_running_state, categories, image, images,
           images_list, shown_at_least_one_image, search_input, tasks,
           first_launch, message, event, pc, panic, frame, download_from,
           last_request, load_count, first_msg, list, origin, run_op, run_n,
           args, ret >>

appVars == << running_state, previous_running_state, categories, image, images,
              images_list, shown_at_least_one_image, search_input, tasks >>

histVars == << download_from, last_request, load_count, first_msg >>

listVars == << list, origin, run_op, run_n >>

callVars == << args, ret >>

-----------------------------------------------------------------------------
(* Bounds of the model *)

\* Width in bits of the modelled usize (the program's is 64; only the wrap at
\* zero is observable to this program).
UsizeBits == 8

\* Fetch tasks in the JoinSet at one time.
MaxTasks == 2

\* Characters the search buffer may hold.
MaxInput == 1

\* Items of the list of SpecList.
MaxLen == 3

\* How far a selection may run away from both ends of usize on an empty list.
MaxSel == 0

-----------------------------------------------------------------------------
(* Option<T>: None is the empty sequence, Some(x) the one-element sequence *)

None == << >>

Some(x) == << x >>

UsizeMax == 2^UsizeBits - 1

\* a - b on usize when the build wraps on overflow
WrappingSub(a, b) == (a - b) % (2^UsizeBits)

Min(a, b) == IF a <= b THEN a ELSE b

RECURSIVE Insert(_, _)
Insert(x, s) ==
    IF s = << >> THEN << x >>
    ELSE IF x <= Head(s) THEN << x >> \o s
    ELSE << Head(s) >> \o Insert(x, Tail(s))

\* sort_unstable / sort_by_cached_key, mutated: the reply is left as it came
Unsorted(s) == s

\* sort_unstable / sort_by_cached_key on names
RECURSIVE Sort(_)
Sort(s) == IF s = << >> THEN << >> ELSE Insert(Head(s), Sort(Tail(s)))

\* sequences without repetition over S, of every length
RECURSIVE Arrangements(_)
Arrangements(S) ==
    IF S = {} THEN { << >> }
    ELSE { << >> } \cup
         UNION { { << x >> \o t : t \in Arrangements(S \ {x}) } : x \in S }

-----------------------------------------------------------------------------
(* f32: the positive normal values m * 2^e, 2^23 <= m < 2^24, every        *)
(* operation rounded to nearest, ties to even (IEEE 754 binary32)          *)

MantBits == 24

Limb == 2^12

\* m * 2^e with m > 0, brought to a 24-bit significand (nothing is lost as
\* long as m < 2^24)
RECURSIVE Normal(_, _)
Normal(m, e) ==
    IF m < 2^(MantBits - 1) THEN Normal(2 * m, e - 1) ELSE [m |-> m, e |-> e]

\* f32::from(n) for a u16 n > 0: exact
f32_from(n) == Normal(n, 0)

\* the significand m with what was cut off compared to half a unit in the
\* last place: cmp < 0 below half, cmp = 0 a tie, cmp > 0 above half
RoundEven(m, e, cmp) ==
    LET up == cmp > 0 \/ (cmp = 0 /\ m % 2 = 1)
        n  == IF up THEN m + 1 ELSE m
    IN  IF n = 2^MantBits THEN [m |-> 2^(MantBits - 1), e |-> e + 1]
        ELSE [m |-> n, e |-> e]

\* k more quotient bits of r / d, where r < d
RECURSIVE LongDiv(_, _, _, _)
LongDiv(q, r, d, k) ==
    IF k = 0 THEN [q |-> q, r |-> r]
    ELSE IF 2 * r >= d THEN LongDiv(2 * q + 1, 2 * r - d, d, k - 1)
    ELSE LongDiv(2 * q, 2 * r, d, k - 1)

\* a / b on f32
f32_div(a, b) ==
    LET ge == a.m >= b.m
        qr == IF ge THEN LongDiv(1, a.m - b.m, b.m, MantBits - 1)
              ELSE LongDiv(0, a.m, b.m, MantBits)
        e  == a.e - b.e - (IF ge THEN MantBits - 1 ELSE MantBits)
    IN  RoundEven(qr.q, e, 2 * qr.r - b.m)

\* a * b on f32: the 48-bit product of the significands in 12-bit limbs
f32_mul(a, b) ==
    LET a1  == a.m \div Limb
        a0  == a.m % Limb
        b1  == b.m \div Limb
        b0  == b.m % Limb
        lo  == (a0 * b0) % Limb
        mid == a1 * b0 + a0 * b1 + (a0 * b0) \div Limb
        ml  == mid % Limb
        hi  == a1 * b1 + mid \div Limb
    IN  IF hi >= 2^(MantBits - 1)
        THEN RoundEven(hi, a.e + b.e + MantBits,
                       (ml * Limb + lo) - 2^(MantBits - 1))
        ELSE RoundEven(2 * hi + ml \div (Limb \div 2),
                       a.e + b.e + MantBits - 1,
                       ((ml % (Limb \div 2)) * Limb + lo) - 2^(MantBits - 2))

U16Max == 2^16 - 1

\* `x.floor() as u16`: the cast saturates
floor_as_u16(a) ==
    IF a.e > -8 THEN U16Max
    ELSE IF a.e < -(MantBits - 1) THEN 0
    ELSE a.m \div 2^(-a.e)

\* `x.ceil() as u16`: the cast saturates
ceil_as_u16(a) ==
    IF a.e > -8 THEN U16Max
    ELSE IF a.e < -(MantBits - 1) THEN 1
    ELSE LET c == a.m \div 2^(-a.e) + (IF a.m % 2^(-a.e) = 0 THEN 0 ELSE 1)
         IN  IF c > U16Max THEN U16Max ELSE c

\* the literal 2.0
F2_0 == f32_from(2)

\* the literal 2.15: the f32 nearest to 43/20
F2_15 == f32_div(f32_from(43), f32_from(20))

-----------------------------------------------------------------------------
(* src/stateful_list.rs *)

\* #[derive(Default)]: no selection, no items
StatefulList_default == [state |-> None, items |-> << >>]

\* StatefulList::with_items: the selection is Some(0) whatever the items are
with_items(items) == [state |-> Some(0), items |-> items]

\* `self.items.len() - 1` in next is evaluated whenever something is selected
next_overflows(self) == self.state # None /\ Len(self.items) = 0

\* `self.items.len() - 1` in previous is evaluated only when index 0 is selected
previous_overflows(self) == self.state = Some(0) /\ Len(self.items) = 0

\* StatefulList::next, mutated: no wrap at the last item
next_no_wrap(self) ==
    [self EXCEPT !.state = IF self.state = None THEN Some(0)
                           ELSE Some(self.state[1] + 1)]

\* StatefulList::next, `len() - 1` wrapping where it overflows
next(self) ==
    LET i == IF self.state = None THEN 0
             ELSE IF self.state[1] >= WrappingSub(Len(self.items), 1) THEN 0
             ELSE self.state[1] + 1
    IN  [self EXCEPT !.state = Some(i)]

\* StatefulList::previous, mutated: index 0 stays at 0
previous_saturating(self) ==
    [self EXCEPT !.state = IF self.state = None \/ self.state[1] = 0
                           THEN Some(0)
                           ELSE Some(self.state[1] - 1)]

\* StatefulList::previous, `len() - 1` wrapping where it overflows
previous(self) ==
    LET i == IF self.state = None THEN 0
             ELSE IF self.state[1] = 0 THEN WrappingSub(Len(self.items), 1)
             ELSE self.state[1] - 1
    IN  [self EXCEPT !.state = Some(i)]

\* StatefulList::selected index is a position of items
InRange(self) ==
    self.state # None /\ self.state[1] < Len(self.items)

\* The model follows a selection that left the items only this far.
Followed(self) ==
    \/ self.state = None
    \/ self.state[1] <= Len(self.items) + MaxSel
    \/ self.state[1] >= UsizeMax - MaxSel

-----------------------------------------------------------------------------
(* src/main.rs: types *)

\* enum RunningState
RunningState ==
    { "Loading", "BrowsingCategories", "BrowsingImages", "Searching",
      "ShowingDownloadPopup", "Exit" }

\* KeyCode values the model feeds in; Chars are the KeyCode::Char ones
Chars == { "q", "s", "/", "d" }

Keys == { "Up", "Down", "Left", "Right", "Enter", "Backspace", "Esc" } \cup Chars

\* The characters the model types into the search buffer
TypedChars == { "q" }

\* What event::poll / event::read can give handle_event
Timeout == [type |-> "Timeout"]

OtherEvent == [type |-> "Other"]

KeyEvent(kind, code) == [type |-> "Key", kind |-> kind, code |-> code]

Events ==
    { Timeout, OtherEvent, KeyEvent("Release", "Enter") } \cup
    { KeyEvent("Press", code) : code \in Keys }

NoEvent == [type |-> "NoEvent"]

\* enum Message
Msg(t) == [type |-> t]

ShowImageList(category) == [type |-> "ShowImageList", category |-> category]

HandleSearchInput(key) == [type |-> "HandleSearchInput", key |-> key]

ShowImage(img) == [type |-> "ShowImage", image |-> img]

\* category names and record names of the remote catalog, numbered in the
\* order the program's string comparison gives them
Categories == { 1 }

Records == { 1, 2 }

\* struct Image, as the fetch task builds it from record r
Image(r) == [name |-> r]

\* Result<Message> of a fetch task on record r
TaskOk(r) == [ok |-> TRUE, msg |-> ShowImage(Image(r))]

\* (the cause is only ever printed by the unwrap that aborts on it)
TaskErr == [ok |-> FALSE]

TaskErrors == { "unable to retrieve book data",
                "image cannot be processed from memory" }

\* tasks in the JoinSet: still running, and finished but not yet joined
TaskCount ==
    LET RECURSIVE Sum(_)
        Sum(S) == IF S = {} THEN 0
                  ELSE LET r == CHOOSE x \in S : TRUE
                       IN  tasks.running[r] + Sum(S \ {r})
    IN  Sum(Records) + Len(tasks.finished)

-----------------------------------------------------------------------------
(* src/layout.rs *)

\* centered_text: `(f32::from(height) / 2f32) as usize`
centered_text_half(height) ==
    IF height = 0 THEN 0 ELSE floor_as_u16(f32_div(f32_from(height), F2_0))

\* centered_text: `usize::from(height % 2 == 0)`
centered_text_even(height) == IF height % 2 = 0 THEN 1 ELSE 0

\* centered_text: one of the two subtractions goes below zero
centered_text_overflows(num_of_lines, height) ==
    \/ centered_text_half(height) < centered_text_even(height)
    \/ centered_text_half(height) - centered_text_even(height) < num_of_lines

\* centered_text: the count handed to "\n".repeat, the subtractions wrapping
\* where they overflow
centered_text_pad(num_of_lines, height) ==
    WrappingSub(WrappingSub(centered_text_half(height),
                            centered_text_even(height)),
                num_of_lines)

\* isize::MAX: the most bytes an allocation may have
IsizeMax == 2^(UsizeBits - 1) - 1

-----------------------------------------------------------------------------
(* src/main.rs: view *)

MinHeight == 8

MinWidth == 72

Windows ==
    { [height |-> MinHeight,     width |-> MinWidth + 1],
      [height |-> MinHeight + 1, width |-> MinWidth],
      [height |-> MinHeight + 1, width |-> MinWidth + 1] }

\* view: `window_size.height <= 8 || window_size.width <= 72`
TooSmall(w) == w.height <= MinHeight \/ w.width <= MinWidth

\* f.render_stateful_widget(list, area, &mut state): the widget is handed the
\* selection mutably. A ratatui release that repairs the selection drops the
\* selection of an empty list and clamps one past the end (repairs = TRUE);
\* another leaves it alone (repairs = FALSE).
render_stateful_widget(self, repairs) ==
    IF ~repairs THEN self
    ELSE IF Len(self.items) = 0 THEN [self EXCEPT !.state = None]
    ELSE IF self.state # None /\ self.state[1] >= Len(self.items)
         THEN [self EXCEPT !.state = Some(Len(self.items) - 1)]
    ELSE self

\* view, mutated: the size check comes after the list is drawn
view_size_check_late(w, repairs) ==
    [frame       |-> IF TooSmall(w) THEN "warning"
                     ELSE IF running_state = "Loading" THEN "loading"
                     ELSE IF running_state = "Searching" THEN "search"
                     ELSE IF running_state = "BrowsingCategories"
                          THEN "categories"
                     ELSE "images",
     categories  |-> IF running_state = "BrowsingCategories"
                     THEN render_stateful_widget(categories, repairs)
                     ELSE categories,
     images_list |-> IF running_state \in { "BrowsingImages",
                                            "ShowingDownloadPopup" }
                     THEN render_stateful_widget(images_list, repairs)
                     ELSE images_list]

\* view: the screen drawn for a window of size w, and the two list states as
\* the draw leaves them
view(w, repairs) ==
    IF TooSmall(w)
    THEN [frame       |-> "warning",
          categories  |-> categories,
          images_list |-> images_list]
    ELSE IF running_state = "Loading"
    THEN [frame       |-> "loading",
          categories  |-> categories,
          images_list |-> images_list]
    ELSE IF running_state = "Searching"
    THEN [frame       |-> "search",
          categories  |-> categories,
          images_list |-> images_list]
    ELSE IF running_state = "BrowsingCategories"
    THEN [frame       |-> "categories",
          categories  |-> render_stateful_widget(categories, repairs),
          images_list |-> images_list]
    ELSE [frame       |-> "images",
          categories  |-> categories,
          images_list |-> render_stateful_widget(images_list, repairs)]

\* enum ProtocolType of ratatui_image
ProtocolType == { "Halfblocks", "Sixel", "Kitty", "Iterm2" }

\* Layout::vertical / Layout::horizontal([Constraint::Length(n)])
\* .flex(Flex::Center).split(area) along one axis of the area, which begins at
\* `from` and is `size` cells long: the segment is cut to the area and put in
\* its middle. Where the cells left over are odd in number the odd cell goes
\* after the segment (up = FALSE) or before it (up = TRUE).
layout_center(n, from, size, up) ==
    LET len   == Min(n, size)
        slack == size - len
        lead  == slack \div 2 + (IF up THEN slack % 2 ELSE 0)
    IN  [pos |-> from + lead, len |-> len]

\* view: the `image.width > image.height` branch of image_layout
landscape_layout(img, area, up) ==
    LET scaled == f32_mul(f32_from(area.width),
                          f32_div(f32_from(img.height), f32_from(img.width)))
        height == IF img.protocol = "Halfblocks"
                  THEN ceil_as_u16(f32_div(scaled, F2_0))
                  ELSE floor_as_u16(f32_div(scaled, F2_15))
        seg    == layout_center(height, area.y, area.height, up)
    IN  [x |-> area.x, y |-> seg.pos, width |-> area.width, height |-> seg.len]

\* view: the else branch of image_layout
portrait_layout(img, area, up) ==
    LET scaled == f32_mul(f32_from(area.height),
                          f32_div(f32_from(img.width), f32_from(img.height)))
        width  == IF img.protocol = "Halfblocks"
                  THEN ceil_as_u16(f32_mul(scaled, F2_0))
                  ELSE ceil_as_u16(f32_mul(scaled, F2_15))
        seg    == layout_center(width, area.x, area.width, up)
    IN  [x |-> seg.pos, y |-> area.y, width |-> seg.len, height |-> area.height]

\* view: image_layout[0], mutated: the comparison is turned round
image_layout_inverted(img, area, up) ==
    IF img.width < img.height THEN landscape_layout(img, area, up)
    ELSE portrait_layout(img, area, up)

\* view: image_layout[0], the rectangle the image is drawn in
image_layout(img, area, up) ==
    IF img.width > img.height THEN landscape_layout(img, area, up)
    ELSE portrait_layout(img, area, up)

-----------------------------------------------------------------------------
(* src/main.rs: handle_key *)

\* The place where handle_key aborts on key code `code`, or "none":
\* `app.categories.items[app.categories.state.selected().unwrap()]`
handle_key_panic(code) ==
    IF running_state = "BrowsingCategories" /\ code \in { "Right", "Enter" }
    THEN IF categories.state = None
         THEN "handle_key: unwrap of no selected category"
         ELSE IF ~InRange(categories)
         THEN "handle_key: category index out of bounds"
         ELSE "none"
    ELSE "none"

\* handle_key, mutated: 'd' asks for a download whether an image is loaded or
\* not
handle_key_download_unguarded(code) ==
    CASE running_state = "Searching" ->
           IF code = "Enter" /\ search_input.value # << >>
           THEN Some(Msg("ShowSearchResults"))
           ELSE Some(HandleSearchInput(code))
      [] running_state = "BrowsingCategories" ->
           CASE code = "Up" -> Some(Msg("MoveUpCategories"))
             [] code = "Down" -> Some(Msg("MoveDownCategories"))
             [] code \in { "Right", "Enter" } ->
                  Some(ShowImageList(categories.items[categories.state[1] + 1]))
             [] code = "q" -> Some(Msg("Exit"))
             [] code \in { "s", "/" } -> Some(Msg("Search"))
             [] code = "d" -> Some(Msg("DownloadImage"))
             [] OTHER -> None
      [] running_state = "BrowsingImages" ->
           CASE code = "q" -> Some(Msg("Exit"))
             [] code \in { "s", "/" } -> Some(Msg("Search"))
             [] code = "d" -> Some(Msg("DownloadImage"))
             [] code = "Up" -> Some(Msg("MoveUpImages"))
             [] code = "Down" -> Some(Msg("MoveDownImages"))
             [] code = "Left" -> Some(Msg("BrowseCategories"))
             [] code \in { "Right", "Enter" } -> Some(Msg("LoadImage"))
             [] OTHER -> None
      [] running_state = "ShowingDownloadPopup" ->
           Some(Msg("DismissDownloadPrompt"))
      [] OTHER -> None

\* handle_key: the Option<Message> for a pressed key, when it does not abort
handle_key(code) ==
    CASE running_state = "Searching" ->
           IF code = "Enter" /\ search_input.value # << >>
           THEN Some(Msg("ShowSearchResults"))
           ELSE Some(HandleSearchInput(code))
      [] running_state = "BrowsingCategories" ->
           CASE code = "Up" -> Some(Msg("MoveUpCategories"))
             [] code = "Down" -> Some(Msg("MoveDownCategories"))
             [] code \in { "Right", "Enter" } ->
                  Some(ShowImageList(categories.items[categories.state[1] + 1]))
             [] code = "q" -> Some(Msg("Exit"))
             [] code \in { "s", "/" } -> Some(Msg("Search"))
             [] code = "d" /\ image # None -> Some(Msg("DownloadImage"))
             [] OTHER -> None
      [] running_state = "BrowsingImages" ->
           CASE code = "q" -> Some(Msg("Exit"))
             [] code \in { "s", "/" } -> Some(Msg("Search"))
             [] code = "d" /\ image # None -> Some(Msg("DownloadImage"))
             [] code = "Up" -> Some(Msg("MoveUpImages"))
             [] code = "Down" -> Some(Msg("MoveDownImages"))
             [] code = "Left" -> Some(Msg("BrowseCategories"))
             [] code \in { "Right", "Enter" } -> Some(Msg("LoadImage"))
             [] OTHER -> None
      [] running_state = "ShowingDownloadPopup" ->
           Some(Msg("DismissDownloadPrompt"))
      [] OTHER -> None

-----------------------------------------------------------------------------
(* src/main.rs: main, handle_event *)

mainFrame == << first_launch, frame >>

\* the state main starts from: App::default() and the locals of main
InitApp ==
    /\ running_state = "Loading"
    /\ previous_running_state = "Loading"
    /\ categories = StatefulList_default
    /\ image = None
    /\ images = << >>
    /\ images_list = StatefulList_default
    /\ shown_at_least_one_image = FALSE
    /\ search_input = [value |-> << >>]
    /\ tasks = [running |-> [r \in Records |-> 0], finished |-> << >>]
    /\ first_launch = TRUE
    /\ message = None
    /\ event = NoEvent
    /\ pc = "loop"
    /\ panic = "none"
    /\ frame = "none"
    /\ download_from = "none"
    /\ last_request = None
    /\ load_count = 0
    /\ first_msg = "none"
    /\ list = StatefulList_default
    /\ origin = None
    /\ run_op = "none"
    /\ run_n = 0

Init == InitApp /\ args = None /\ ret = None

\* main: `while app.running_state != RunningState::Exit`, mutated: never stops
loop_forever == TRUE

\* main: `while app.running_state != RunningState::Exit`
loop_continues == running_state # "Exit"

\* main: the loop condition holds; term.draw(|f| view(&mut app, f)) draws on
\* a terminal of size w
Draw(w, repairs) ==
    /\ pc = "loop"
    /\ loop_continues
    /\ LET v == view(w, repairs)
       IN  /\ frame' = v.frame
           /\ categories' = v.categories
           /\ images_list' = v.images_list
    /\ pc' = "event"
    /\ UNCHANGED << running_state, previous_running_state, image, images,
                    shown_at_least_one_image, search_input, tasks, histVars,
                    listVars, callVars, first_launch, message, event, panic >>

\* main: the loop condition fails; tui::restore and return
Finish ==
    /\ pc = "loop"
    /\ ~loop_continues
    /\ pc' = "done"
    /\ UNCHANGED << appVars, histVars, listVars, callVars, mainFrame, message, event,
                    panic >>

\* main: first_launch after `if first_launch { ... }`, mutated: the flag is
\* never cleared
first_launch_kept == first_launch

\* main: first_launch after `if first_launch { ...; first_launch = false; }`
first_launch_after == FALSE

\* main: `if first_launch { message = Some(Message::LoadCategories); ... }`
first_message(m) == IF first_launch THEN Some(Msg("LoadCategories")) ELSE m

\* The model's bounds on what a message may grow.
WithinBounds(m) ==
    \/ m = None
    \/ /\ m # None
       /\ m[1].type = "LoadImage" => TaskCount < MaxTasks
       /\ (m[1].type = "HandleSearchInput" /\ m[1].key \in Chars)
             => /\ Len(search_input.value) < MaxInput
                /\ m[1].key \in TypedChars
       /\ m[1].type = "MoveUpCategories" => Followed(previous(categories))
       /\ m[1].type = "MoveDownCategories" => Followed(next(categories))
       /\ m[1].type = "MoveUpImages" => Followed(previous(images_list))
       /\ m[1].type = "MoveDownImages" => Followed(next(images_list))

\* handle_event: the Option<Message> for event ev, when handle_key does not
\* abort: only a key press reaches handle_key
handle_event(ev) ==
    IF ev.type = "Key" /\ ev.kind = "Press" THEN handle_key(ev.code) ELSE None

\* main: handle_event(&app) waits for event ev, then the first_launch override
HandleEvent(ev) ==
    /\ pc = "event"
    /\ LET site == IF ev.type = "Key" /\ ev.kind = "Press"
                   THEN handle_key_panic(ev.code) ELSE "none"
       IN  IF site # "none"
           THEN /\ panic' = site
                /\ pc' = "panicked"
                /\ event' = ev
                /\ UNCHANGED << message, first_launch >>
           ELSE LET m == first_message(handle_event(ev))
                IN  /\ WithinBounds(m)
                    /\ message' = m
                    /\ first_launch' = first_launch_after
                    /\ event' = IF m = None THEN NoEvent ELSE ev
                    /\ pc' = IF m = None THEN "drain" ELSE "update"
                    /\ panic' = panic
    /\ UNCHANGED << appVars, histVars, listVars, callVars, frame >>

-----------------------------------------------------------------------------
(* src/main.rs: update *)

\* update is running on a message of type t
Updating(t) == pc = "update" /\ message # None /\ message[1].type = t

\* history: the type of the first message update was given
Processed(t) == first_msg' = IF first_msg = "none" THEN t ELSE first_msg

\* update returns None: the `while let Some(msg) = message` loop of main ends
Return(t) ==
    /\ message' = None
    /\ event' = NoEvent
    /\ pc' = "drain"
    /\ panic' = panic
    /\ Processed(t)
    /\ UNCHANGED << mainFrame, listVars, callVars >>

\* a failure, mutated: it is noted and update returns as after any message
AbortRecovered(site, t) ==
    /\ panic' = site
    /\ message' = None
    /\ event' = NoEvent
    /\ pc' = "drain"
    /\ Processed(t)
    /\ UNCHANGED << mainFrame, listVars, callVars >>

\* an unwrap, an index or an arithmetic check fails: the run is aborted
Abort(site, t) ==
    /\ panic' = site
    /\ pc' = "panicked"
    /\ Processed(t)
    /\ UNCHANGED << message, event, mainFrame, listVars, callVars >>

\* Message::DismissDownloadPrompt, mutated: back to a fixed default
dismiss_to_default == "BrowsingCategories"

\* Message::DismissDownloadPrompt: `app.previous_running_state`
dismiss_to == previous_running_state

UpdateDismissDownloadPrompt ==
    /\ Updating("DismissDownloadPrompt")
    /\ running_state' = dismiss_to
    /\ Return("DismissDownloadPrompt")
    /\ UNCHANGED << previous_running_state, categories, image, images,
                    images_list, shown_at_least_one_image, search_input, tasks,
                    download_from, last_request, load_count >>

\* app.search_input.handle_event(&Event::Key(key)) on the text of the Input,
\* the only part of it the program reads: a character is added, Backspace
\* removes one, any other key of Keys leaves the text as it is
handle_input(input, code) ==
    CASE code \in Chars -> [input EXCEPT !.value = Append(@, code)]
      [] code = "Backspace" /\ input.value # << >> ->
           [input EXCEPT !.value = SubSeq(@, 1, Len(@) - 1)]
      [] OTHER -> input

\* Message::HandleSearchInput(key), mutated: Esc closes the search
UpdateHandleSearchInputEsc ==
    /\ Updating("HandleSearchInput")
    /\ search_input' = handle_input(search_input, message[1].key)
    /\ running_state' = IF message[1].key = "Esc" THEN "BrowsingCategories"
                        ELSE running_state
    /\ Return("HandleSearchInput")
    /\ UNCHANGED << previous_running_state, categories, image, images,
                    images_list, shown_at_least_one_image, tasks,
                    download_from, last_request, load_count >>

\* Message::HandleSearchInput(key)
UpdateHandleSearchInput ==
    /\ Updating("HandleSearchInput")
    /\ search_input' = handle_input(search_input, message[1].key)
    /\ Return("HandleSearchInput")
    /\ UNCHANGED << running_state, previous_running_state, categories, image,
                    images, images_list, shown_at_least_one_image, tasks,
                    download_from, last_request, load_count >>

UpdateSearch ==
    /\ Updating("Search")
    /\ running_state' = "Searching"
    /\ Return("Search")
    /\ UNCHANGED << previous_running_state, categories, image, images,
                    images_list, shown_at_least_one_image, search_input, tasks,
                    download_from, last_request, load_count >>

\* Message::ShowSearchResults; aghpb::search answers `reply` (in its own
\* order, kept), or fails and the unwrap aborts
UpdateShowSearchResults ==
    /\ Updating("ShowSearchResults")
    /\ running_state' = "BrowsingImages"
    /\ \/ /\ Abort("update: search failed", "ShowSearchResults")
          /\ UNCHANGED << images, images_list >>
       \/ \E reply \in Arrangements(Records) :
             /\ images' = reply
             /\ images_list' = with_items(reply)
             /\ Return("ShowSearchResults")
    /\ UNCHANGED << previous_running_state, categories, image,
                    shown_at_least_one_image, search_input, tasks,
                    download_from, last_request, load_count >>

UpdateExit ==
    /\ Updating("Exit")
    /\ running_state' = "Exit"
    /\ Return("Exit")
    /\ UNCHANGED << previous_running_state, categories, image, images,
                    images_list, shown_at_least_one_image, search_input, tasks,
                    download_from, last_request, load_count >>

UpdateBrowseCategories ==
    /\ Updating("BrowseCategories")
    /\ running_state' = "BrowsingCategories"
    /\ Return("BrowseCategories")
    /\ UNCHANGED << previous_running_state, categories, image, images,
                    images_list, shown_at_least_one_image, search_input, tasks,
                    download_from, last_request, load_count >>

\* Message::LoadCategories; aghpb::categories answers `reply`, or fails and
\* the unwrap aborts
UpdateLoadCategories ==
    /\ Updating("LoadCategories")
    /\ load_count' = Min(load_count + 1, 2)
    /\ \/ /\ Abort("update: categories failed", "LoadCategories")
          /\ UNCHANGED << categories, running_state >>
       \/ \E reply \in Arrangements(Categories) :
             /\ categories' = with_items(Sort(reply))
             /\ running_state' = "BrowsingCategories"
             /\ Return("LoadCategories")
    /\ UNCHANGED << previous_running_state, image, images, images_list,
                    shown_at_least_one_image, search_input, tasks,
                    download_from, last_request >>

\* Message::MoveUpCategories / MoveUpImages / MoveDownCategories /
\* MoveDownImages. Where `len() - 1` overflows, a build with overflow checks
\* aborts and a build without them wraps: either outcome is taken.
UpdateMoveUpCategories ==
    /\ Updating("MoveUpCategories")
    /\ \/ /\ previous_overflows(categories)
          /\ Abort("previous: attempt to subtract with overflow",
                   "MoveUpCategories")
          /\ UNCHANGED categories
       \/ /\ categories' = previous(categories)
          /\ Return("MoveUpCategories")
    /\ UNCHANGED << running_state, previous_running_state, image, images,
                    images_list, shown_at_least_one_image, search_input, tasks,
                    download_from, last_request, load_count >>

UpdateMoveUpImages ==
    /\ Updating("MoveUpImages")
    /\ \/ /\ previous_overflows(images_list)
          /\ Abort("previous: attempt to subtract with overflow",
                   "MoveUpImages")
          /\ UNCHANGED images_list
       \/ /\ images_list' = previous(images_list)
          /\ Return("MoveUpImages")
    /\ UNCHANGED << running_state, previous_running_state, categories, image,
                    images, shown_at_least_one_image, search_input, tasks,
                    download_from, last_request, load_count >>

UpdateMoveDownCategories ==
    /\ Updating("MoveDownCategories")
    /\ \/ /\ next_overflows(categories)
          /\ Abort("next: attempt to subtract with overflow",
                   "MoveDownCategories")
          /\ UNCHANGED categories
       \/ /\ categories' = next(categories)
          /\ Return("MoveDownCategories")
    /\ UNCHANGED << running_state, previous_running_state, image, images,
                    images_list, shown_at_least_one_image, search_input, tasks,
                    download_from, last_request, load_count >>

UpdateMoveDownImages ==
    /\ Updating("MoveDownImages")
    /\ \/ /\ next_overflows(images_list)
          /\ Abort("next: attempt to subtract with overflow",
                   "MoveDownImages")
          /\ UNCHANGED images_list
       \/ /\ images_list' = next(images_list)
          /\ Return("MoveDownImages")
    /\ UNCHANGED << running_state, previous_running_state, categories, image,
                    images, shown_at_least_one_image, search_input, tasks,
                    download_from, last_request, load_count >>

\* Message::ShowImageList(category); aghpb::search answers `reply`, which is
\* sorted by name, or fails and the unwrap aborts
UpdateShowImageList ==
    /\ Updating("ShowImageList")
    /\ running_state' = "BrowsingImages"
    /\ \/ /\ Abort("update: image list failed", "ShowImageList")
          /\ UNCHANGED << images, images_list >>
       \/ \E reply \in Arrangements(Records) :
             /\ images' = Sort(reply)
             /\ images_list' = with_items(Sort(reply))
             /\ Return("ShowImageList")
    /\ UNCHANGED << previous_running_state, categories, image,
                    shown_at_least_one_image, search_input, tasks,
                    download_from, last_request, load_count >>

\* app.tasks.spawn(...) on record r
spawn(r) == [tasks EXCEPT !.running[r] = @ + 1]

\* Message::LoadImage
UpdateLoadImage ==
    /\ Updating("LoadImage")
    /\ image' = None
    /\ shown_at_least_one_image' = TRUE
    /\ IF images_list.state = None
       THEN /\ Abort("update: unwrap of no selected image", "LoadImage")
            /\ UNCHANGED << tasks, last_request >>
       ELSE IF images_list.state[1] >= Len(images)
       THEN /\ Abort("update: image index out of bounds", "LoadImage")
            /\ UNCHANGED << tasks, last_request >>
       ELSE LET r == images[images_list.state[1] + 1]
            IN  /\ tasks' = spawn(r)
                /\ last_request' = Some(r)
                /\ Return("LoadImage")
    /\ UNCHANGED << running_state, previous_running_state, categories, images,
                    images_list, search_input, download_from, load_count >>

\* Message::ShowImage(image), mutated: an image already shown is kept
show_image_if_absent(img) == IF image # None THEN image ELSE Some(img)

\* Message::ShowImage(image): `app.image = Some(image)`
show_image(img) == Some(img)

\* Message::DownloadImage, mutated: the running state is saved after it was
\* set to the popup
UpdateDownloadImageSavedLate ==
    /\ Updating("DownloadImage")
    /\ IF image # None
       THEN \/ /\ Abort("update: unable to locate download directory",
                        "DownloadImage")
               /\ UNCHANGED << running_state, previous_running_state,
                               download_from >>
            \/ /\ Abort("update: unable to write the image data to disk",
                        "DownloadImage")
               /\ UNCHANGED << running_state, previous_running_state,
                               download_from >>
            \/ /\ previous_running_state' = "ShowingDownloadPopup"
               /\ running_state' = "ShowingDownloadPopup"
               /\ download_from' = running_state
               /\ Return("DownloadImage")
       ELSE /\ Abort("update: unreachable: no image to download",
                     "DownloadImage")
            /\ UNCHANGED << running_state, previous_running_state,
                            download_from >>
    /\ UNCHANGED << categories, image, images, images_list,
                    shown_at_least_one_image, search_input, tasks,
                    last_request, load_count >>

\* Message::DownloadImage; dirs::download_dir and fs::write succeed, or one of
\* them fails and its unwrap aborts
UpdateDownloadImage ==
    /\ Updating("DownloadImage")
    /\ IF image # None
       THEN \/ /\ Abort("update: unable to locate download directory",
                        "DownloadImage")
               /\ UNCHANGED << running_state, previous_running_state,
                               download_from >>
            \/ /\ Abort("update: unable to write the image data to disk",
                        "DownloadImage")
               /\ UNCHANGED << running_state, previous_running_state,
                               download_from >>
            \/ /\ previous_running_state' = running_state
               /\ running_state' = "ShowingDownloadPopup"
               /\ download_from' = running_state
               /\ Return("DownloadImage")
       ELSE /\ Abort("update: unreachable: no image to download",
                     "DownloadImage")
            /\ UNCHANGED << running_state, previous_running_state,
                            download_from >>
    /\ UNCHANGED << categories, image, images, images_list,
                    shown_at_least_one_image, search_input, tasks,
                    last_request, load_count >>

-----------------------------------------------------------------------------
(* src/main.rs: the fetch tasks and the drain step of main *)

\* main looks at the JoinSet only in try_join_next, so a task that finishes
\* at any moment of an iteration is one that has finished when the drain step
\* polls: completions are taken there
Polled == pc = "drain"

\* A fetch task on record r runs to its `Ok(Message::ShowImage(image))`.
TaskSucceeds(r) ==
    /\ Polled
    /\ tasks.running[r] > 0
    /\ tasks' = [running  |-> [tasks.running EXCEPT ![r] = @ - 1],
                 finished |-> Append(tasks.finished, TaskOk(r))]
    /\ UNCHANGED << running_state, previous_running_state, categories, image,
                    images, images_list, shown_at_least_one_image,
                    search_input, histVars, listVars, callVars, mainFrame, message,
                    event, pc, panic >>

\* A fetch task on record r ends at one of its two `?`.
TaskFails(r, cause) ==
    /\ Polled
    /\ tasks.running[r] > 0
    /\ tasks' = [running  |-> [tasks.running EXCEPT ![r] = @ - 1],
                 finished |-> Append(tasks.finished, TaskErr)]
    /\ UNCHANGED << running_state, previous_running_state, categories, image,
                    images, images_list, shown_at_least_one_image,
                    search_input, histVars, listVars, callVars, mainFrame, message,
                    event, pc, panic >>

\* main: `while let Some(msg) = app.tasks.try_join_next()` takes a finished
\* task and `update(&mut app, msg.unwrap().unwrap())` applies its message
JoinNext ==
    /\ pc = "drain"
    /\ tasks.finished # << >>
    /\ tasks' = [tasks EXCEPT !.finished = Tail(@)]
    /\ LET res == Head(tasks.finished)
       IN  IF res.ok
           THEN /\ image' = show_image(res.msg.image)
                /\ Processed("ShowImage")
                /\ UNCHANGED << pc, panic >>
           ELSE /\ panic' = "main: unwrap of a failed fetch task"
                /\ pc' = "panicked"
                /\ UNCHANGED << image, first_msg >>
    /\ UNCHANGED << running_state, previous_running_state, categories, images,
                    images_list, shown_at_least_one_image, search_input,
                    download_from, last_request, load_count, listVars, callVars,
                    mainFrame, message, event >>

\* main: try_join_next gives None; back to the loop condition
DrainDone ==
    /\ pc = "drain"
    /\ tasks.finished = << >>
    /\ pc' = "loop"
    /\ UNCHANGED << appVars, histVars, listVars, callVars, mainFrame, message, event,
                    panic >>

Next ==
    \/ \E w \in Windows, repairs \in BOOLEAN : Draw(w, repairs)
    \/ Finish
    \/ \E ev \in Events : HandleEvent(ev)
    \/ UpdateDismissDownloadPrompt
    \/ UpdateHandleSearchInput
    \/ UpdateSearch
    \/ UpdateShowSearchResults
    \/ UpdateExit
    \/ UpdateBrowseCategories
    \/ UpdateLoadCategories
    \/ UpdateMoveUpCategories
    \/ UpdateMoveUpImages
    \/ UpdateMoveDownCategories
    \/ UpdateMoveDownImages
    \/ UpdateShowImageList
    \/ UpdateLoadImage
    \/ UpdateDownloadImage
    \/ \E r \in Records : TaskSucceeds(r)
    \/ \E r \in Records, cause \in TaskErrors : TaskFails(r, cause)
    \/ JoinNext
    \/ DrainDone

Spec == Init /\ [][Next]_vars

-----------------------------------------------------------------------------
(* SpecList: src/stateful_list.rs on its own *)

ItemNames == { "a", "b" }

\* every Vec<String> over ItemNames of at most MaxLen items
ItemLists == UNION { [1 .. n -> ItemNames] : n \in 0 .. MaxLen }

\* a run is a maximal row of calls of one operation, cut after len calls;
\* origin is the selection the run began from
Continues(op) == run_op = op /\ run_n < Len(list.items)

Counted(op) ==
    IF Continues(op)
    THEN run_n' = run_n + 1 /\ UNCHANGED << origin, run_op >>
    ELSE run_n' = 1 /\ origin' = list.state /\ run_op' = op

ListWithItems(items) ==
    /\ panic = "none"
    /\ list' = with_items(items)
    /\ origin' = None
    /\ run_op' = "none"
    /\ run_n' = 0
    /\ UNCHANGED << appVars, histVars, callVars, first_launch, message, event, pc,
                    panic, frame >>

ListDefault ==
    /\ panic = "none"
    /\ list' = StatefulList_default
    /\ origin' = None
    /\ run_op' = "none"
    /\ run_n' = 0
    /\ UNCHANGED << appVars, histVars, callVars, first_launch, message, event, pc,
                    panic, frame >>

\* list.next(): where `len() - 1` overflows, the build aborts or wraps
ListNext ==
    /\ panic = "none"
    /\ \/ /\ next_overflows(list)
          /\ panic' = "next: attempt to subtract with overflow"
          /\ UNCHANGED listVars
       \/ /\ Followed(next(list))
          /\ list' = next(list)
          /\ Counted("next")
          /\ panic' = panic
    /\ UNCHANGED << appVars, histVars, callVars, first_launch, message, event, pc,
                    frame >>

\* list.previous(): where `len() - 1` overflows, the build aborts or wraps
ListPrevious ==
    /\ panic = "none"
    /\ \/ /\ previous_overflows(list)
          /\ panic' = "previous: attempt to subtract with overflow"
          /\ UNCHANGED listVars
       \/ /\ Followed(previous(list))
          /\ list' = previous(list)
          /\ Counted("previous")
          /\ panic' = panic
    /\ UNCHANGED << appVars, histVars, callVars, first_launch, message, event, pc,
                    frame >>

NextList ==
    \/ \E items \in ItemLists : ListWithItems(items)
    \/ ListDefault
    \/ ListNext
    \/ ListPrevious

SpecList == Init /\ [][NextList]_vars

-----------------------------------------------------------------------------
(* SpecLayout: the geometry of view and src/layout.rs on its own *)

\* Pixels along one side of an image.
MaxPixels == 7

\* Columns of the area an image is drawn in.
MaxColumns == 21

\* Rows of the area an image is drawn in.
MaxRows == 8

\* the area is image_block.inner(app_layout[1]): right of the list, inside
\* the border
ImageLayoutCall(w, h, protocol, aw, ah) ==
    [fn    |-> "image_layout",
     image |-> [width |-> w, height |-> h, protocol |-> protocol],
     area  |-> [x |-> 31, y |-> 1, width |-> aw, height |-> ah]]

\* a 1600x900 image in an area of 80x24 cells, drawn with halfblocks
ReferenceCall == ImageLayoutCall(1600, 900, "Halfblocks", 80, 24)

ImageLayoutCalls ==
    { ImageLayoutCall(w, h, protocol, aw, ah) :
        w \in 1 .. MaxPixels, h \in 1 .. MaxPixels,
        protocol \in ProtocolType,
        aw \in 1 .. MaxColumns, ah \in 1 .. MaxRows }
    \cup { ReferenceCall }

\* Lines of the text centered_text is given.
MaxLines == 2

\* Rows of the rectangle centered_text centres its text in.
MaxTextHeight == 5

CenteredTextCalls ==
    { [fn |-> "centered_text", num_of_lines |-> n, height |-> h] :
        n \in 0 .. MaxLines, h \in 0 .. MaxTextHeight }

LayoutCalls == ImageLayoutCalls \cup CenteredTextCalls

InitLayout == InitApp /\ args \in { Some(c) : c \in LayoutCalls } /\ ret = None

Calls(fn) == args # None /\ args[1].fn = fn /\ ret = None /\ panic = "none"

Returned(fn) == args # None /\ args[1].fn = fn /\ ret # None

ImageLayout ==
    /\ Calls("image_layout")
    /\ \E up \in BOOLEAN :
          ret' = Some(image_layout(args[1].image, args[1].area, up))
    /\ UNCHANGED << appVars, histVars, listVars, mainFrame, message, event,
                    pc, panic, args >>

\* centered_text(text, height). Where a subtraction overflows, a build with
\* overflow checks aborts there; a build without them wraps, and "\n".repeat
\* aborts on a count no allocation can hold.
CenteredText ==
    /\ Calls("centered_text")
    /\ LET n == args[1].num_of_lines
           h == args[1].height
       IN  \/ /\ centered_text_overflows(n, h)
              /\ panic' = "centered_text: attempt to subtract with overflow"
              /\ ret' = ret
           \/ /\ centered_text_pad(n, h) > IsizeMax
              /\ panic' = "centered_text: capacity overflow"
              /\ ret' = ret
           \/ /\ centered_text_pad(n, h) <= IsizeMax
              /\ ret' = Some(centered_text_pad(n, h))
              /\ panic' = panic
    /\ UNCHANGED << appVars, histVars, listVars, mainFrame, message, event,
                    pc, args >>

NextLayout ==
    \/ ImageLayout
    \/ CenteredText

SpecLayout == InitLayout /\ [][NextLayout]_vars

-----------------------------------------------------------------------------
(* Properties *)

\* C1: a fetch task that ends in a failure is processed by the drain step
\* without terminating the process (and so without a change of the running
\* state), in whatever running state the application is.
C1_FailedFetchSurvived == panic # "main: unwrap of a failed fetch task"

\* C2: in BrowsingCategories with zero categories loaded, Right or Enter is
\* rejected or a no-op: it never indexes the empty list and never aborts.
C2_EnterOnNoCategories ==
    (running_state = "BrowsingCategories" /\ Len(categories.items) = 0)
        => panic \notin { "handle_key: unwrap of no selected category",
                          "handle_key: category index out of bounds" }

\* C3: after DownloadImage was processed in running state S, every key press
\* in ShowingDownloadPopup is a DismissDownloadPrompt, nothing but that message
\* ends the popup, whatever was drained meanwhile, and it sets the running
\* state to exactly S.
C3_DismissRestores ==
    [][ /\ running_state = "ShowingDownloadPopup"
           => \A code \in Keys :
                 handle_key(code) = Some(Msg("DismissDownloadPrompt"))
        /\ (running_state = "ShowingDownloadPopup"
               /\ running_state' # running_state)
           => Updating("DismissDownloadPrompt")
        /\ Updating("DismissDownloadPrompt")
           => running_state' = download_from ]_vars

\* C3 witness: a key was pressed in the popup that a download from
\* BrowsingCategories opened, while a fetch is still in flight.
C3_Witness ==
    /\ Updating("DismissDownloadPrompt")
    /\ event.type = "Key"
    /\ download_from = "BrowsingCategories"
    /\ TaskCount > 0

\* C4: the run starts in Loading; LoadCategories is the first message
\* processed, in the first iteration whatever was read, and it is processed
\* exactly once.
C4_LoadCategoriesOnce ==
    /\ first_msg \in { "none", "LoadCategories" }
    /\ load_count <= 1
    /\ first_launch => (running_state = "Loading" /\ load_count = 0)
    /\ ~first_launch => (load_count = 1 \/ Updating("LoadCategories"))
    /\ Updating("LoadCategories") => load_count = 0
    /\ (pc = "update" /\ load_count = 0) => Updating("LoadCategories")

\* C4 witness: 'q' was pressed in the first iteration and the message to
\* process is LoadCategories all the same.
C4_Witness ==
    /\ Updating("LoadCategories")
    /\ event = KeyEvent("Press", "q")
    /\ load_count = 0

\* C5: 'q' in BrowsingCategories or BrowsingImages is the Exit message, which
\* sets the running state to Exit; from then on the running state stays Exit
\* and main neither reads an event nor processes a key message again.
C5_ExitTerminates ==
    [][ /\ running_state \in { "BrowsingCategories", "BrowsingImages" }
           => handle_key("q") = Some(Msg("Exit"))
        /\ Updating("Exit") => running_state' = "Exit"
        /\ running_state = "Exit"
           => /\ running_state' = "Exit"
              /\ pc' \notin { "event", "update" }
              /\ message' = None ]_vars

\* C5 witness: the loop has ended in Exit while a fetch was still in flight.
C5_Witness == pc = "done" /\ running_state = "Exit" /\ TaskCount > 0

\* C6 (as claimed): while the terminal is below the minimum size, no key
\* press changes the running state, the selections or the image, or spawns a
\* fetch task.
C6_InputSuppressed ==
    [][ (frame = "warning" /\ pc = "update"
            /\ message[1].type # "LoadCategories")
        => UNCHANGED << running_state, categories, images_list, image,
                        tasks >> ]_vars

\* C6 (amended): on a terminal below the minimum size view draws the warning
\* alone and leaves the whole application state as it was; key presses are
\* handled as on a terminal of any other size.
C6_WarningOnly ==
    [][ (pc = "loop" /\ pc' = "event" /\ frame' = "warning")
        => UNCHANGED appVars ]_vars

\* C6 witness: the warning was drawn over an empty category list whose
\* selection is Some(0), and main is about to read a key.
C6_Witness ==
    /\ pc = "event"
    /\ frame = "warning"
    /\ running_state = "BrowsingCategories"
    /\ categories = with_items(<< >>)

\* C7: the drain step applies ShowImage(p) by setting the image to p, in any
\* running state and whatever was requested last, and changes nothing else of
\* the running state; so the image is the payload applied last.
C7_LastWriteWins ==
    [][ (pc = "drain" /\ tasks.finished # << >>
            /\ tasks'.finished = Tail(tasks.finished)
            /\ Head(tasks.finished).ok)
        => /\ image' = Some(Head(tasks.finished).msg.image)
           /\ running_state' = running_state
           /\ pc' = pc ]_vars

\* C7 witness: record 2 was requested last, both fetches were applied, and
\* the image is record 1's: the stale completion came last.
C7_Witness ==
    /\ image = Some(Image(1))
    /\ last_request = Some(2)
    /\ TaskCount = 0
    /\ panic = "none"

\* C8: a list made by with_items from a non-empty sequence has, after any
\* calls of next and previous, a selection Some(i) with 0 <= i < len.
C8_SelectionInRange == Len(list.items) > 0 => InRange(list)

\* C8 witness: previous has wrapped from index 0 to the last item.
C8_Witness ==
    /\ Len(list.items) = MaxLen
    /\ run_op = "previous"
    /\ origin = Some(0)
    /\ list.state = Some(MaxLen - 1)

\* C9: next and previous on a list with no items are no-ops: no arithmetic or
\* index error, and the selection stays exactly as it was.
C9_EmptyListNoOp ==
    Len(list.items) = 0
        => /\ panic = "none"
           /\ run_n > 0 => list.state = origin

\* C10: on a non-empty list, len calls of next in a row, and len calls of
\* previous in a row, bring the selection back to where the row began.
C10_Cyclic ==
    (Len(list.items) > 0 /\ run_n = Len(list.items)) => list.state = origin

\* C10 witness: a full row of previous calls on the longest list, begun at
\* index 1, has come round.
C10_Witness ==
    /\ Len(list.items) = MaxLen
    /\ run_op = "previous"
    /\ run_n = MaxLen
    /\ origin = Some(1)
    /\ list.state = Some(1)

\* C11: for every image of positive width and height, every non-empty area
\* and every protocol, the image rectangle lies inside the area, the longer
\* axis of the image takes the whole of the area along it, and along the
\* other axis the cells left before and after differ by at most one.
C11_InsideAndCentered ==
    Returned("image_layout") =>
        LET img   == args[1].image
            area  == args[1].area
            r     == ret[1]
            left  == r.x - area.x
            right == (area.x + area.width) - (r.x + r.width)
            above == r.y - area.y
            below == (area.y + area.height) - (r.y + r.height)
        IN  /\ left >= 0 /\ right >= 0 /\ above >= 0 /\ below >= 0
            /\ img.width > img.height => (left = 0 /\ right = 0)
            /\ img.width < img.height => (above = 0 /\ below = 0)
            /\ (left = 0 /\ right = 0) \/ (above = 0 /\ below = 0)
            /\ left - right \in { -1, 0, 1 }
            /\ above - below \in { -1, 0, 1 }

\* C11 witness: a landscape image drawn by a protocol other than halfblocks,
\* lower than its area by an odd number of rows.
C11_Witness ==
    /\ Returned("image_layout")
    /\ args[1].image.width > args[1].image.height
    /\ args[1].image.protocol = "Kitty"
    /\ ret[1].height > 0
    /\ ret[1].width = MaxColumns
    /\ (args[1].area.height - ret[1].height) % 2 = 1

\* C12: the short side of the image rectangle follows the reference rule in
\* exact arithmetic. For w > h the height is min(area.height, R(area.width *
\* h / w / c)), R = ceil and c = 2 with halfblocks, R = floor and c = 2.15 =
\* 43/20 with any other protocol, and the width is area.width; for w <= h the
\* width is min(area.width, ceil(area.height * w / h * c)) and the height is
\* area.height. A 1600x900 image in 80x24 cells with halfblocks gets 80x23.
C12_ReferenceRule ==
    Returned("image_layout") =>
        LET img  == args[1].image
            area == args[1].area
            r    == ret[1]
            w    == img.width
            h    == img.height
            half == img.protocol = "Halfblocks"
            CeilDiv(n, d) == (n + d - 1) \div d
        IN  /\ w > h =>
                 /\ r.width = area.width
                 /\ r.height =
                      Min(area.height,
                          IF half THEN CeilDiv(area.width * h, 2 * w)
                          ELSE (20 * area.width * h) \div (43 * w))
            /\ w <= h =>
                 /\ r.height = area.height
                 /\ r.width =
                      Min(area.width,
                          IF half THEN CeilDiv(2 * area.height * w, h)
                          ELSE CeilDiv(43 * area.height * w, 20 * h))
            /\ args[1] = ReferenceCall => (r.width = 80 /\ r.height = 23)

\* C13: for every number of lines and every height with lines <= height,
\* centered_text computes its padding without a subtraction going below zero:
\* the call returns, and the padding is a count of blank lines that fits the
\* height.
C13_PadNeverNegative ==
    (/\ args # None
     /\ args[1].fn = "centered_text"
     /\ args[1].num_of_lines <= args[1].height)
        => /\ panic = "none"
           /\ ret # None => ret[1] \in 0 .. args[1].height

\* C14: processing LoadImage sets the image to None, sets
\* shown_at_least_one_image, adds exactly one task to the task set and leaves
\* the running state as it is; and shown_at_least_one_image, once true, is
\* true in every later state.
C14_LoadImageEffects ==
    [][ /\ Updating("LoadImage")
           => /\ image' = None
              /\ shown_at_least_one_image'
              /\ TaskCount' = TaskCount + 1
              /\ running_state' = running_state
        /\ shown_at_least_one_image => shown_at_least_one_image' ]_vars

\* C15: whenever LoadImage is processed the image list has a selection and
\* the selected index is a position of the loaded records, however
\* BrowsingImages was reached, a category or a search without records
\* included; so LoadImage never fails on its unwrap or on its index.
C15_LoadImageSelectionValid ==
    /\ Updating("LoadImage")
           => /\ images_list.state # None
              /\ images_list.state[1] < Len(images)
    /\ panic \notin { "update: unwrap of no selected image",
                       "update: image index out of bounds" }

\* C16: every fetch task yields one message, applied exactly once. A result
\* leaves the task set only in the drain step, as the oldest finished one, and
\* its message is then applied and the run goes on; the image is set only by
\* such a step, so no message is applied twice or before its task finished;
\* the drain step ends when no finished task is left, running ones or not.
C16_AppliedExactlyOnce ==
    [][ /\ Len(tasks'.finished) < Len(tasks.finished)
           => /\ pc = "drain"
              /\ tasks'.finished = Tail(tasks.finished)
              /\ tasks'.running = tasks.running
              /\ Head(tasks.finished).ok
              /\ image' = Some(Head(tasks.finished).msg.image)
              /\ pc' = "drain"
        /\ (image' # image /\ image' # None)
           => tasks'.finished = Tail(tasks.finished)
        /\ (pc = "drain" /\ pc' = "loop")
           => (tasks.finished = << >> /\ tasks' = tasks) ]_vars

\* C17: Right or Enter in BrowsingCategories with category c selected is the
\* message ShowImageList(c), processed at once; when the remote call succeeds
\* the step that processes it ends in BrowsingImages with the records sorted
\* by name, the image list holding their names in the same order and number,
\* and index 0 selected; nothing else happens while the message waits: no
\* key is read and no task completion is taken before the list is in place.
C17_ShowImageListInPlace ==
    [][ /\ (/\ pc = "event"
            /\ running_state = "BrowsingCategories"
            /\ ~first_launch
            /\ InRange(categories)
            /\ event' \in { KeyEvent("Press", "Right"),
                            KeyEvent("Press", "Enter") })
           => /\ message' = Some(ShowImageList(
                                categories.items[categories.state[1] + 1]))
              /\ pc' = "update"
        /\ Updating("ShowImageList")
           => \/ pc' = "panicked"
              \/ /\ pc' = "drain"
                 /\ running_state' = "BrowsingImages"
                 /\ \A i \in 1 .. Len(images') - 1 :
                       images'[i] <= images'[i + 1]
                 /\ Len(images_list'.items) = Len(images')
                 /\ \A i \in 1 .. Len(images') :
                       images_list'.items[i] = Image(images'[i]).name
                 /\ images_list'.state = Some(0)
                 /\ tasks' = tasks
                 /\ image' = image ]_vars

\* C17 witness: the category screen was drawn, and in the same iteration the
\* list of both records is in place in BrowsingImages, sorted, index 0
\* selected, while an earlier fetch is still in flight.
C17_Witness ==
    /\ pc = "drain"
    /\ frame = "categories"
    /\ running_state = "BrowsingImages"
    /\ images = << 1, 2 >>
    /\ images_list = with_items(<< 1, 2 >>)
    /\ TaskCount > 0

\* C18: when an inline remote call fails (the category listing of
\* LoadCategories, the listing of ShowImageList, the search of
\* ShowSearchResults) the run is over: the update that made the call does not
\* return, and from then on nothing is processed and nothing changes.
C18_InlineFailureIsFatal ==
    [][ /\ panic' \in { "update: categories failed",
                        "update: image list failed",
                        "update: search failed" }
           => /\ pc' = "panicked"
              /\ message' = message
              /\ tasks' = tasks
        /\ panic \in { "update: categories failed",
                       "update: image list failed",
                       "update: search failed" }
           => UNCHANGED vars ]_vars

\* C18 witness: the listing of a category failed while a fetch was in flight
\* and the run has stopped with the message still in hand.
C18_Witness ==
    /\ panic = "update: image list failed"
    /\ pc = "panicked"
    /\ message # None
    /\ TaskCount > 0

\* C19: DownloadImage is never processed while no image is loaded, in any
\* interleaving of key presses, LoadImage requests and task completions: the
\* `unreachable!()` of its update is never reached.
C19_DownloadHasImage ==
    /\ Updating("DownloadImage") => image # None
    /\ panic # "update: unreachable: no image to download"

\* C19 witness: 'd' was pressed while the image of record 1 is shown and the
\* fetch of record 2, requested after it, is still in flight.
C19_Witness ==
    /\ Updating("DownloadImage")
    /\ event = KeyEvent("Press", "d")
    /\ image = Some(Image(1))
    /\ last_request = Some(2)
    /\ TaskCount > 0

\* C20: in Searching the running state changes only to BrowsingImages and
\* only by Enter pressed with a non-empty search buffer; every other key
\* press, Enter on an empty buffer and 'q' included, is forwarded to the
\* buffer and leaves the running state Searching: no step leads from
\* Searching to Exit or back to where the search was opened.
C20_SearchingLeftByEnterOnly ==
    [][ running_state = "Searching"
        => /\ running_state' \in { "Searching", "BrowsingImages" }
           /\ running_state' = "BrowsingImages"
              => /\ Updating("ShowSearchResults")
                 /\ event = KeyEvent("Press", "Enter")
                 /\ search_input.value # << >>
           /\ (pc = "event" /\ event'.type = "Key" /\ event'.kind = "Press"
                  /\ ~(event'.code = "Enter" /\ search_input.value # << >>))
              => message' = Some(HandleSearchInput(event'.code))
           /\ Updating("HandleSearchInput")
              => /\ running_state' = "Searching"
                 /\ search_input' = handle_input(search_input, message[1].key)
       ]_vars

\* C20 witness: 'q' was pressed in Searching with a fetch in flight; it has
\* been put in the search buffer and the running state is still Searching.
C20_Witness ==
    /\ running_state = "Searching"
    /\ pc = "drain"
    /\ search_input.value = << "q" >>
    /\ TaskCount > 0

\* C21: in every state whose running state is ShowingDownloadPopup an image
\* is loaded and the saved previous running state is BrowsingCategories or
\* BrowsingImages; so dismissing the popup never leads to Loading, Searching
\* or Exit, and the popup is never entered from itself.
C21_PopupHasImageAndOrigin ==
    running_state = "ShowingDownloadPopup"
        => /\ image # None
           /\ previous_running_state \in { "BrowsingCategories",
                                           "BrowsingImages" }

\* C21 witness: the popup, opened from BrowsingCategories, is up while a
\* fetch requested earlier is still in flight and another has been applied.
C21_Witness ==
    /\ running_state = "ShowingDownloadPopup"
    /\ previous_running_state = "BrowsingCategories"
    /\ pc = "loop"
    /\ image = Some(Image(1))
    /\ last_request = Some(2)
    /\ TaskCount > 0

=============================================================================
